---- MODULE Spec2Model ----
(***************************************************************************)
(* A model of the two console pipelines of chrome-console-javascript:      *)
(*                                                                         *)
(*   - lib/chrome-console.js: the chrome-console tool, which listens on    *)
(*     Runtime.consoleAPICalled and Console.messageAdded and prints each   *)
(*     message with console.log;                                           *)
(*   - the ChromeConsoleCapture class and its utilities (formatting,       *)
(*     colour selection, file sink, message handlers).                     *)
(*                                                                         *)
(* JavaScript strings are sequences of one-character strings, so that      *)
(* toLowerCase, toUpperCase, concatenation and comparison are computed     *)
(* and not assumed.                                                        *)
(***************************************************************************)
EXTENDS Integers, Sequences, FiniteSets, TLC

VARIABLES
    \* ---- lib/chrome-console.js (ChromeConsole.setupConsoleListening) ----
    processedMessages,  \* the Set of message identifiers
    ccOut,              \* the console.log calls, oldest first
    ccSeen,             \* history: the protocol events delivered, oldest first
    \* ---- ChromeConsoleCapture ----
    options,            \* this.options
    startPc,            \* where start() stands: "idle", "launch", "newPage",
                        \*   "viewport", "goto", "started" or "failed"
    browser,            \* this.browser: "null" | "open"
    page,               \* this.page: "null" | "open"
    listening,          \* the page has the three listeners of setupConsoleHandling
    browserClosed,      \* the browser has closed: the page emits nothing more
    fileStream,         \* this.fileStream: "null" | "stream"
    stream,             \* the fs.WriteStream: [ended, log, refused]
    messageHandlers,    \* this.messageHandlers, in registration order
    stdout,             \* what process.stdout.write received, oldest first
    delivered,          \* history: the handler calls, oldest first
    pending,            \* console handlers suspended in an await, oldest first
    stops,              \* the stop() calls: "closing" or "done" each
    proc,               \* the node process: "running" | "crashed"
    nextId,             \* history: the number of page events observed
    calls,              \* history: the processMessage calls, oldest first
    \* ---- pure functions of utils ----
    fnIn,               \* the type the function is called with
    fnOut               \* the call made and its result

ccVars  == <<processedMessages, ccOut, ccSeen>>
capVars == <<options, startPc, browser, page, listening, browserClosed,
             fileStream, stream, messageHandlers, stdout, delivered, pending,
             stops, proc, nextId, calls>>
fnVars  == <<fnIn, fnOut>>
vars    == <<ccVars, capVars, fnVars>>

(***************************************************************************)
(* JavaScript strings                                                      *)
(***************************************************************************)
UpperLetters ==
    <<"A","B","C","D","E","F","G","H","I","J","K","L","M",
      "N","O","P","Q","R","S","T","U","V","W","X","Y","Z">>

LowerLetters ==
    <<"a","b","c","d","e","f","g","h","i","j","k","l","m",
      "n","o","p","q","r","s","t","u","v","w","x","y","z">>

LetterIndex(alphabet, c) ==
    IF \E i \in 1..Len(alphabet) : alphabet[i] = c
    THEN CHOOSE i \in 1..Len(alphabet) : alphabet[i] = c
    ELSE 0

\* String.prototype.toLowerCase
toLowerCase(s) ==
    [i \in 1..Len(s) |->
        IF LetterIndex(UpperLetters, s[i]) = 0 THEN s[i]
        ELSE LowerLetters[LetterIndex(UpperLetters, s[i])]]

\* String.prototype.toUpperCase
toUpperCase(s) ==
    [i \in 1..Len(s) |->
        IF LetterIndex(LowerLetters, s[i]) = 0 THEN s[i]
        ELSE UpperLetters[LetterIndex(LowerLetters, s[i])]]

\* Boolean(s) for a string: the empty string is falsy
TruthyStr(s) == Len(s) > 0

(***************************************************************************)
(* The message types, as JavaScript strings                                *)
(***************************************************************************)
T_log == <<"l","o","g">>
T_info == <<"i","n","f","o">>
T_warn == <<"w","a","r","n">>
T_warning == <<"w","a","r","n","i","n","g">>
T_error == <<"e","r","r","o","r">>
T_debug == <<"d","e","b","u","g">>
T_trace == <<"t","r","a","c","e">>
T_dir == <<"d","i","r">>
T_dirxml == <<"d","i","r","x","m","l">>
T_table == <<"t","a","b","l","e">>
T_group == <<"g","r","o","u","p">>
T_groupCollapsed == <<"g","r","o","u","p","C","o","l","l","a","p","s","e","d">>
T_groupEnd == <<"g","r","o","u","p","E","n","d">>
T_assert == <<"a","s","s","e","r","t">>
T_count == <<"c","o","u","n","t">>
T_countReset == <<"c","o","u","n","t","R","e","s","e","t">>
T_time == <<"t","i","m","e">>
T_timeLog == <<"t","i","m","e","L","o","g">>
T_timeEnd == <<"t","i","m","e","E","n","d">>
T_profile == <<"p","r","o","f","i","l","e">>
T_profileEnd == <<"p","r","o","f","i","l","e","E","n","d">>
T_clear == <<"c","l","e","a","r">>
T_verbose == <<"v","e","r","b","o","s","e">>
T_startGroup == <<"s","t","a","r","t","G","r","o","u","p">>
T_endGroup == <<"e","n","d","G","r","o","u","p">>
T_constructor == <<"c","o","n","s","t","r","u","c","t","o","r">>
T_toString == <<"t","o","S","t","r","i","n","g">>
T_valueOf == <<"v","a","l","u","e","O","f">>
T_hasOwnProperty == <<"h","a","s","O","w","n","P","r","o","p","e","r","t","y">>
T___proto__ == <<"_","_","p","r","o","t","o","_","_">>

\* The vocabulary of section 6 of the specification, which is the key set of
\* colorMap.
Vocabulary ==
    {T_log, T_info, T_warn, T_warning, T_error, T_debug,
     T_trace, T_dir, T_dirxml, T_table, T_group, T_groupCollapsed,
     T_groupEnd, T_assert, T_count, T_countReset, T_time, T_timeLog,
     T_timeEnd, T_profile, T_profileEnd, T_clear}

\* colorMap: the own properties of the object literal, in source order.
colorMap ==
    <<[key |-> T_log, value |-> "white"],
      [key |-> T_info, value |-> "blue"],
      [key |-> T_warn, value |-> "yellow"],
      [key |-> T_warning, value |-> "yellow"],
      [key |-> T_error, value |-> "red"],
      [key |-> T_debug, value |-> "gray"],
      [key |-> T_trace, value |-> "gray"],
      [key |-> T_dir, value |-> "cyan"],
      [key |-> T_dirxml, value |-> "cyan"],
      [key |-> T_table, value |-> "cyan"],
      [key |-> T_group, value |-> "magenta"],
      [key |-> T_groupCollapsed, value |-> "magenta"],
      [key |-> T_groupEnd, value |-> "magenta"],
      [key |-> T_assert, value |-> "red"],
      [key |-> T_count, value |-> "green"],
      [key |-> T_countReset, value |-> "green"],
      [key |-> T_time, value |-> "green"],
      [key |-> T_timeLog, value |-> "green"],
      [key |-> T_timeEnd, value |-> "green"],
      [key |-> T_profile, value |-> "yellow"],
      [key |-> T_profileEnd, value |-> "yellow"],
      [key |-> T_clear, value |-> "gray"]>>

(***************************************************************************)
(* JavaScript values returned by a property lookup                         *)
(***************************************************************************)
JsString(v)   == [t |-> "string", v |-> v]
JsFunction(v) == [t |-> "function", v |-> v]
JsObject(v)   == [t |-> "object", v |-> v]
JsUndefined   == [t |-> "undefined", v |-> "undefined"]

\* Every object, function and non-empty string is truthy; undefined is falsy.
Truthy(x) == x.t \in {"function", "object"} \/ (x.t = "string" /\ x.v # "")

\* The properties an object literal inherits from Object.prototype.
ObjectPrototype ==
    <<[key |-> T_constructor, value |-> JsFunction("Object")],
      [key |-> T___proto__, value |-> JsObject("Object.prototype")],
      [key |-> T_toString, value |-> JsFunction("toString")],
      [key |-> T_valueOf, value |-> JsFunction("valueOf")],
      [key |-> T_hasOwnProperty, value |-> JsFunction("hasOwnProperty")]>>

\* obj[key] for an object literal whose own properties are strings: the own
\* property when there is one, else the inherited one, else undefined.
GetProperty(own, key) ==
    IF \E i \in 1..Len(own) : own[i].key = key
    THEN JsString(own[CHOOSE i \in 1..Len(own) : own[i].key = key].value)
    ELSE IF \E i \in 1..Len(ObjectPrototype) : ObjectPrototype[i].key = key
    THEN ObjectPrototype[CHOOSE i \in 1..Len(ObjectPrototype) :
                            ObjectPrototype[i].key = key].value
    ELSE JsUndefined

(***************************************************************************)
(* utils: getConsoleColor                                                  *)
(***************************************************************************)
\* return colorMap[type.toLowerCase()] || 'white';
getConsoleColor(type) ==
    LET v == GetProperty(colorMap, toLowerCase(type))
    IN  IF Truthy(v) THEN v ELSE JsString("white")

\* The colour functions chalk exposes that colorMap names.
ChalkColors ==
    {"white", "blue", "yellow", "red", "gray", "cyan", "magenta", "green"}

\* chalk[color] is a function exactly when color is the name of a chalk colour;
\* chalk[color](output) throws a TypeError otherwise.
ChalkCallable(color) == color.t = "string" /\ color.v \in ChalkColors

\* const typeLabel = messageData.type.toUpperCase();
typeLabel(type) == toUpperCase(type)

(***************************************************************************)
(* String literals of the source                                           *)
(***************************************************************************)
S_empty == <<>>
S_undefined == <<"u","n","d","e","f","i","n","e","d">>
S_null == <<"n","u","l","l">>
S_true == <<"t","r","u","e">>
S_false == <<"f","a","l","s","e">>
S_NaN == <<"N","a","N">>
S_space == <<" ">>
S_percent == <<"%">>
S_minus == <<"-">>
S_dot == <<".">>
S_zero == <<"0">>
S_at == <<" "," "," "," ","a","t"," ">>
S_colon == <<":">>
S_newline == <<"\n">>
P_plain == <<"[","C","H","R","O","M","E"," ","C","O","N","S","O","L","E","]">>
P_log == <<"[","C","H","R","O","M","E"," ","C","O","N","S","O","L","E"," ","L","O","G","]">>
P_error == <<"[","C","H","R","O","M","E"," ","C","O","N","S","O","L","E"," ","E","R","R","O","R","]">>
P_warn == <<"[","C","H","R","O","M","E"," ","C","O","N","S","O","L","E"," ","W","A","R","N","]">>
P_info == <<"[","C","H","R","O","M","E"," ","C","O","N","S","O","L","E"," ","I","N","F","O","]">>
P_debug == <<"[","C","H","R","O","M","E"," ","C","O","N","S","O","L","E"," ","D","E","B","U","G","]">>

K_string   == <<"s","t","r","i","n","g">>
K_number   == <<"n","u","m","b","e","r">>
K_boolean  == <<"b","o","o","l","e","a","n">>
K_object   == <<"o","b","j","e","c","t">>
K_function == <<"f","u","n","c","t","i","o","n">>
K_symbol   == <<"s","y","m","b","o","l">>

(***************************************************************************)
(* JavaScript numbers and primitive values                                 *)
(*                                                                         *)
(* A number is NaN or a multiple of one tenth (n10 tenths), which is       *)
(* enough to tell an integer parse from a float parse.                     *)
(***************************************************************************)
Num(n10) == [nan |-> FALSE, n10 |-> n10]
NaN      == [nan |-> TRUE, n10 |-> 0]

DigitChars == <<"0","1","2","3","4","5","6","7","8","9">>

IsDigit(c) == \E d \in 1..10 : DigitChars[d] = c

DigitValue(c) == (CHOOSE d \in 1..10 : DigitChars[d] = c) - 1

RECURSIVE DigitsOf(_)
\* the decimal digits of a natural number
DigitsOf(n) ==
    IF n < 10 THEN <<DigitChars[n + 1]>>
    ELSE DigitsOf(n \div 10) \o <<DigitChars[(n % 10) + 1]>>

Abs(n) == IF n < 0 THEN -n ELSE n

\* String(x) for a number
NumberToString(x) ==
    IF x.nan THEN S_NaN
    ELSE (IF x.n10 < 0 THEN S_minus ELSE S_empty)
         \o DigitsOf(Abs(x.n10) \div 10)
         \o (IF Abs(x.n10) % 10 = 0 THEN S_empty
             ELSE S_dot \o <<DigitChars[(Abs(x.n10) % 10) + 1]>>)

\* A JavaScript value: a string, a number, a boolean, undefined (NoVal), null,
\* a BigInt, or a plain object, which is a sequence of [key, value] fields
\* whose values are primitive.
StrVal(s)  == [k |-> "str",  s |-> s,       x |-> Num(0), b |-> FALSE, f |-> <<>>]
NumVal(x)  == [k |-> "num",  s |-> S_empty, x |-> x,      b |-> FALSE, f |-> <<>>]
BoolVal(b) == [k |-> "bool", s |-> S_empty, x |-> Num(0), b |-> b,     f |-> <<>>]
NoVal      == [k |-> "none", s |-> S_empty, x |-> Num(0), b |-> FALSE, f |-> <<>>]
NullVal    == [k |-> "null", s |-> S_empty, x |-> Num(0), b |-> FALSE, f |-> <<>>]
ObjVal(f)  == [k |-> "obj",  s |-> S_empty, x |-> Num(0), b |-> FALSE, f |-> f]
BigVal(n)  == [k |-> "bigint", s |-> S_empty, x |-> Num(10 * n), b |-> FALSE, f |-> <<>>]

\* String(v)
StringOf(v) ==
    CASE v.k = "str"  -> v.s
      [] v.k = "num"  -> NumberToString(v.x)
      [] v.k = "bool" -> (IF v.b THEN S_true ELSE S_false)
      [] v.k = "null" -> S_null
      [] v.k = "bigint" -> NumberToString(v.x)
      [] v.k = "obj"  -> <<"[","o","b","j","e","c","t"," ","O","b","j","e","c","t","]">>
      [] OTHER        -> S_undefined

\* Boolean(v)
TruthyVal(v) ==
    CASE v.k = "str"  -> Len(v.s) > 0
      [] v.k = "num"  -> ~v.x.nan /\ v.x.n10 # 0
      [] v.k = "bool" -> v.b
      [] v.k = "bigint" -> v.x.n10 # 0
      [] v.k = "obj"  -> TRUE
      [] OTHER        -> FALSE

RECURSIVE SkipSpaces(_, _)
\* the first index of s at or after i that holds no space
SkipSpaces(s, i) ==
    IF i <= Len(s) /\ s[i] = " " THEN SkipSpaces(s, i + 1) ELSE i

RECURSIVE DigitRun(_, _, _)
\* [value, next]: the natural number read from the digits of s starting at i
DigitRun(s, i, acc) ==
    IF i <= Len(s) /\ IsDigit(s[i])
    THEN DigitRun(s, i + 1, acc * 10 + DigitValue(s[i]))
    ELSE [value |-> acc, next |-> i]

\* parseInt(s, 10): leading white space, an optional sign, then digits; NaN
\* when no digit follows.
parseInt(s) ==
    LET i    == SkipSpaces(s, 1)
        neg  == i <= Len(s) /\ s[i] = "-"
        j    == IF i <= Len(s) /\ s[i] \in {"-", "+"} THEN i + 1 ELSE i
        run  == DigitRun(s, j, 0)
    IN  IF run.next = j THEN NaN
        ELSE Num((IF neg THEN -1 ELSE 1) * run.value * 10)

\* parseFloat(s): leading white space, an optional sign, digits, and an
\* optional fraction, of which the first digit is kept.
parseFloat(s) ==
    LET i     == SkipSpaces(s, 1)
        neg   == i <= Len(s) /\ s[i] = "-"
        j     == IF i <= Len(s) /\ s[i] \in {"-", "+"} THEN i + 1 ELSE i
        run   == DigitRun(s, j, 0)
        dot   == run.next <= Len(s) /\ s[run.next] = "."
        frac  == IF dot THEN DigitRun(s, run.next + 1, 0)
                 ELSE [value |-> 0, next |-> run.next]
        fracDigits == IF dot THEN frac.next - (run.next + 1) ELSE 0
        tenth == IF fracDigits = 0 THEN 0
                 ELSE DigitValue(s[run.next + 1])
    IN  IF run.next = j /\ fracDigits = 0 THEN NaN
        ELSE Num((IF neg THEN -1 ELSE 1) * (run.value * 10 + tenth))

\* x || 0 for a number: NaN and 0 are falsy
OrZero(x) == IF x.nan \/ x.n10 = 0 THEN Num(0) ELSE x

(***************************************************************************)
(* lib/chrome-console.js: formatArgs                                       *)
(*                                                                         *)
(* A console argument is a Runtime.RemoteObject: type, subtype (empty      *)
(* when absent), value, description (empty when absent), preview.          *)
(***************************************************************************)
RemoteObject(type, subtype, value, description, preview) ==
    [type |-> type, subtype |-> subtype, value |-> value,
     description |-> description, preview |-> preview]

StringArg(s)      == RemoteObject(K_string, S_empty, StrVal(s), S_empty, FALSE)
NumberArg(n10)    == RemoteObject(K_number, S_empty, NumVal(Num(n10)),
                                  NumberToString(Num(n10)), FALSE)
\* NaN, Infinity and -0 travel as unserializableValue: there is no value field
NaNArg            == RemoteObject(K_number, S_empty, NoVal, S_NaN, FALSE)
BooleanArg(b)     == RemoteObject(K_boolean, S_empty, BoolVal(b), S_empty, FALSE)
UndefinedArg      == RemoteObject(S_undefined, S_empty, NoVal, S_empty, FALSE)
NullArg           == RemoteObject(K_object, S_null, NoVal, S_empty, FALSE)
ObjectArg(d)      == RemoteObject(K_object, S_empty, NoVal, d, TRUE)
BareObjectArg     == RemoteObject(K_object, S_empty, NoVal, S_empty, FALSE)

RECURSIVE JsonEscape(_)
\* the characters of a JSON string literal: quote, backslash and line feed
\* are escaped
JsonEscape(s) ==
    IF Len(s) = 0 THEN S_empty
    ELSE (CASE Head(s) = "\"" -> <<"\\", "\"">>
            [] Head(s) = "\\" -> <<"\\", "\\">>
            [] Head(s) = "\n" -> <<"\\", "n">>
            [] OTHER          -> <<Head(s)>>) \o JsonEscape(Tail(s))

Quoted(s) == <<"\"">> \o JsonEscape(s) \o <<"\"">>

\* JSON.stringify of a primitive value; undefined has no JSON text
JsonOfPrimitive(v) ==
    CASE v.k = "str"  -> Quoted(v.s)
      [] v.k = "num"  -> (IF v.x.nan THEN S_null ELSE NumberToString(v.x))
      [] v.k = "bool" -> (IF v.b THEN S_true ELSE S_false)
      [] v.k = "null" -> S_null
      [] OTHER        -> S_empty

RECURSIVE JsonFields(_, _, _, _)
\* the members of an object from field i on, each as open \o key \o colon
\* \o value, separated by commas; fields whose value is undefined are left out
JsonFields(f, i, open, colon) ==
    IF i > Len(f) THEN S_empty
    ELSE IF f[i].value.k = "none" THEN JsonFields(f, i + 1, open, colon)
    ELSE LET rest == JsonFields(f, i + 1, open, colon)
         IN  open \o Quoted(f[i].key) \o colon \o JsonOfPrimitive(f[i].value)
             \o (IF Len(rest) = 0 THEN S_empty ELSE <<",">> \o rest)

\* JSON.stringify(v)
JsonOfValue(v) ==
    IF v.k = "obj"
    THEN <<"{">> \o JsonFields(v.f, 1, S_empty, S_colon) \o <<"}">>
    ELSE JsonOfPrimitive(v)

\* JSON.stringify(v, null, 2)
JsonPretty(v) ==
    IF v.k = "obj"
    THEN LET members == JsonFields(v.f, 1, <<"\n", " ", " ">>, <<":", " ">>)
         IN  IF Len(members) = 0 THEN <<"{", "}">>
             ELSE <<"{">> \o members \o <<"\n", "}">>
    ELSE JsonOfPrimitive(v)

\* JSON.stringify(arg): the fields the object carries, in protocol order
JsonStringifyArg(arg) ==
    <<"{">> \o Quoted(<<"t","y","p","e">>) \o S_colon \o Quoted(arg.type)
    \o (IF Len(arg.subtype) = 0 THEN S_empty
        ELSE <<",">> \o Quoted(<<"s","u","b","t","y","p","e">>) \o S_colon
             \o Quoted(arg.subtype))
    \o (IF arg.value.k = "none" THEN S_empty
        ELSE <<",">> \o Quoted(<<"v","a","l","u","e">>) \o S_colon
             \o JsonOfValue(arg.value))
    \o (IF Len(arg.description) = 0 THEN S_empty
        ELSE <<",">> \o Quoted(<<"d","e","s","c","r","i","p","t","i","o","n">>)
             \o S_colon \o Quoted(arg.description))
    \o (IF ~arg.preview THEN S_empty
        ELSE <<",">> \o Quoted(<<"p","r","e","v","i","e","w">>) \o S_colon
             \o <<"{", "}">>)
    \o <<"}">>

\* The rendering chain of the remaining-arguments loop and of the plain join:
\* the element pushed for one argument. An undefined element (a string-typed
\* argument without a value) is joined as the empty string.
RenderArg(arg) ==
    IF arg.type = K_string
    THEN (IF arg.value.k = "none" THEN S_empty ELSE StringOf(arg.value))
    ELSE IF arg.type = K_number \/ arg.type = K_boolean
    THEN StringOf(arg.value)
    ELSE IF arg.type = S_undefined THEN S_undefined
    ELSE IF arg.type = K_object /\ arg.subtype = S_null THEN S_null
    ELSE IF TruthyStr(arg.description) THEN arg.description
    ELSE JsonStringifyArg(arg)

\* case '%s' of the replace callback; a returned undefined is inserted as
\* the text "undefined"
SubstS(arg) ==
    IF arg.type = K_string THEN StringOf(arg.value)
    ELSE IF arg.type = K_number \/ arg.type = K_boolean
    THEN StringOf(arg.value)
    ELSE IF arg.type = S_undefined THEN S_undefined
    ELSE IF arg.type = K_object /\ arg.subtype = S_null THEN S_null
    ELSE IF TruthyStr(arg.description) THEN arg.description
    ELSE JsonStringifyArg(arg)

\* case '%d' and '%i'
SubstD(arg) ==
    IF arg.type = K_number
    THEN NumberToString(parseInt(StringOf(arg.value)))
    ELSE NumberToString(OrZero(parseInt(StringOf(arg.value))))

\* case '%f'
SubstF(arg) ==
    IF arg.type = K_number THEN StringOf(arg.value)
    ELSE NumberToString(OrZero(parseFloat(StringOf(arg.value))))

\* case '%o' and '%O'
SubstO(arg) ==
    IF arg.type = K_object /\ arg.preview
    THEN (IF TruthyStr(arg.description) THEN arg.description
          ELSE JsonStringifyArg(arg))
    ELSE IF TruthyStr(arg.description) THEN arg.description
    ELSE JsonStringifyArg(arg)

\* The characters that may follow '%' in /%[sdifocO%]/g
SpecifierChars == {"s", "d", "i", "f", "o", "c", "O", "%"}

\* The callback's result for one matched specifier other than '%%', given the
\* argument it consumes
Substitute(spec, arg) ==
    CASE spec = "s"         -> SubstS(arg)
      [] spec \in {"d","i"} -> SubstD(arg)
      [] spec = "f"         -> SubstF(arg)
      [] spec \in {"o","O"} -> SubstO(arg)
      [] spec = "c"         -> S_empty
      [] OTHER              -> <<"%", spec>>

RECURSIVE ReplaceSpecifiers_SameArg(_, _, _, _, _)
\* the replace whose callback never advances argIndex
ReplaceSpecifiers_SameArg(fmt, i, argIndex, list, acc) ==
    IF i > Len(fmt) THEN [text |-> acc, argIndex |-> argIndex]
    ELSE IF fmt[i] = "%" /\ i < Len(fmt) /\ fmt[i + 1] \in SpecifierChars
    THEN IF fmt[i + 1] = "%"
         THEN ReplaceSpecifiers_SameArg(fmt, i + 2, argIndex, list, acc \o S_percent)
         ELSE IF argIndex >= Len(list)
         THEN ReplaceSpecifiers_SameArg(fmt, i + 2, argIndex, list,
                     acc \o <<"%", fmt[i + 1]>>)
         ELSE ReplaceSpecifiers_SameArg(fmt, i + 2, argIndex, list,
                     acc \o Substitute(fmt[i + 1], list[argIndex + 1]))
    ELSE ReplaceSpecifiers_SameArg(fmt, i + 1, argIndex, list, acc \o <<fmt[i]>>)

RECURSIVE ReplaceSpecifiers_EscapeConsumes(_, _, _, _, _)
\* the replace whose callback lets '%%' consume an argument too
ReplaceSpecifiers_EscapeConsumes(fmt, i, argIndex, list, acc) ==
    IF i > Len(fmt) THEN [text |-> acc, argIndex |-> argIndex]
    ELSE IF fmt[i] = "%" /\ i < Len(fmt) /\ fmt[i + 1] \in SpecifierChars
    THEN IF fmt[i + 1] = "%"
         THEN ReplaceSpecifiers_EscapeConsumes(fmt, i + 2, IF argIndex >= Len(list) THEN argIndex ELSE argIndex + 1, list, acc \o S_percent)
         ELSE IF argIndex >= Len(list)
         THEN ReplaceSpecifiers_EscapeConsumes(fmt, i + 2, argIndex, list,
                     acc \o <<"%", fmt[i + 1]>>)
         ELSE ReplaceSpecifiers_EscapeConsumes(fmt, i + 2, argIndex + 1, list,
                     acc \o Substitute(fmt[i + 1], list[argIndex + 1]))
    ELSE ReplaceSpecifiers_EscapeConsumes(fmt, i + 1, argIndex, list, acc \o <<fmt[i]>>)

RECURSIVE ReplaceSpecifiers_DropExhausted(_, _, _, _, _)
\* the replace whose callback returns '' once the arguments are exhausted
ReplaceSpecifiers_DropExhausted(fmt, i, argIndex, list, acc) ==
    IF i > Len(fmt) THEN [text |-> acc, argIndex |-> argIndex]
    ELSE IF fmt[i] = "%" /\ i < Len(fmt) /\ fmt[i + 1] \in SpecifierChars
    THEN IF fmt[i + 1] = "%"
         THEN ReplaceSpecifiers_DropExhausted(fmt, i + 2, argIndex, list, acc \o S_percent)
         ELSE IF argIndex >= Len(list)
         THEN ReplaceSpecifiers_DropExhausted(fmt, i + 2, argIndex, list,
                     acc \o S_empty)
         ELSE ReplaceSpecifiers_DropExhausted(fmt, i + 2, argIndex + 1, list,
                     acc \o Substitute(fmt[i + 1], list[argIndex + 1]))
    ELSE ReplaceSpecifiers_DropExhausted(fmt, i + 1, argIndex, list, acc \o <<fmt[i]>>)

RECURSIVE ReplaceSpecifiers(_, _, _, _, _)
\* formatString.replace(/%[sdifocO%]/g, callback): scans fmt from index i with
\* the callback's argIndex; returns the text and the final argIndex.
ReplaceSpecifiers(fmt, i, argIndex, list, acc) ==
    IF i > Len(fmt) THEN [text |-> acc, argIndex |-> argIndex]
    ELSE IF fmt[i] = "%" /\ i < Len(fmt) /\ fmt[i + 1] \in SpecifierChars
    THEN IF fmt[i + 1] = "%"
         THEN ReplaceSpecifiers(fmt, i + 2, argIndex, list, acc \o S_percent)
         ELSE IF argIndex >= Len(list)
         THEN ReplaceSpecifiers(fmt, i + 2, argIndex, list,
                                acc \o <<"%", fmt[i + 1]>>)
         ELSE ReplaceSpecifiers(fmt, i + 2, argIndex + 1, list,
                                acc \o Substitute(fmt[i + 1], list[argIndex + 1]))
    ELSE ReplaceSpecifiers(fmt, i + 1, argIndex, list, acc \o <<fmt[i]>>)

RECURSIVE JoinFrom(_, _, _)
\* rendered.slice(i).join(sep) for a sequence of strings, i counted from 1
JoinFrom(rendered, i, sep) ==
    IF i > Len(rendered) THEN S_empty
    ELSE IF i = Len(rendered) THEN rendered[i]
    ELSE rendered[i] \o sep \o JoinFrom(rendered, i + 1, sep)

Includes(s, c) == \E i \in 1..Len(s) : s[i] = c

\* formatArgs without the test of element 0: every first argument is taken
\* for a format string
formatArgs_AlwaysFormat(args) ==
    IF ~args.present \/ Len(args.list) = 0 THEN S_empty
    ELSE
      LET list     == args.list
          rendered == [k \in 1..Len(list) |-> RenderArg(list[k])]
          r        == ReplaceSpecifiers(StringOf(list[1].value), 1, 1, list, S_empty)
      IN  IF r.argIndex < Len(list)
          THEN r.text \o S_space \o JoinFrom(rendered, r.argIndex + 1, S_space)
          ELSE r.text

\* formatArgs without the loop that appends the remaining arguments
formatArgs_NoRemaining(args) ==
    IF ~args.present \/ Len(args.list) = 0 THEN S_empty
    ELSE
      LET list     == args.list
          firstArg == list[1]
          rendered == [k \in 1..Len(list) |-> RenderArg(list[k])]
      IN  IF firstArg.type = K_string /\ TruthyVal(firstArg.value)
             /\ Includes(firstArg.value.s, "%")
          THEN ReplaceSpecifiers(firstArg.value.s, 1, 1, list, S_empty).text
          ELSE JoinFrom(rendered, 1, S_space)

\* formatArgs(args). args is [present, list]: a missing argument list has
\* present = FALSE. JavaScript counts args from 0, the model from 1, so
\* argIndex k denotes list[k + 1].
formatArgs(args) ==
    IF ~args.present \/ Len(args.list) = 0 THEN S_empty
    ELSE
      LET list     == args.list
          firstArg == list[1]
          rendered == [k \in 1..Len(list) |-> RenderArg(list[k])]
      IN  IF firstArg.type = K_string /\ TruthyVal(firstArg.value)
             /\ Includes(firstArg.value.s, "%")
          THEN LET r == ReplaceSpecifiers(firstArg.value.s, 1, 1, list, S_empty)
               IN  IF r.argIndex < Len(list)
                   THEN r.text \o S_space \o JoinFrom(rendered, r.argIndex + 1, S_space)
                   ELSE r.text
          ELSE JoinFrom(rendered, 1, S_space)

(***************************************************************************)
(* lib/chrome-console.js: the two notification handlers                    *)
(***************************************************************************)
\* Number of protocol events delivered in one session of the model
MaxEvents == 2

\* `${x}` for a number or an absent (undefined) field
TemplateOf(v) == StringOf(v)

\* `${timestamp}-${executionContextId}`: the identity without the type
MessageId_NoType(timestamp, type, executionContextId) ==
    TemplateOf(timestamp) \o S_minus \o TemplateOf(executionContextId)

\* `${timestamp}-${type}-${executionContextId}`
MessageId(timestamp, type, executionContextId) ==
    TemplateOf(timestamp) \o S_minus \o type \o S_minus
    \o TemplateOf(executionContextId)

\* switch (type) of the consoleAPICalled handler: the colour function and the
\* prefix it selects
RuntimeStyle(type) ==
    IF type = T_error THEN [colorFn |-> "red", prefix |-> P_error]
    ELSE IF type = T_warning \/ type = T_warn
    THEN [colorFn |-> "yellow", prefix |-> P_warn]
    ELSE IF type = T_info THEN [colorFn |-> "blue", prefix |-> P_info]
    ELSE IF type = T_debug THEN [colorFn |-> "gray", prefix |-> P_debug]
    ELSE [colorFn |-> "white", prefix |-> P_log]

\* switch (level) of the messageAdded handler
ConsoleStyle(level) ==
    IF level = T_error THEN [colorFn |-> "red", prefix |-> P_error]
    ELSE IF level = T_warning THEN [colorFn |-> "yellow", prefix |-> P_warn]
    ELSE IF level = T_info THEN [colorFn |-> "blue", prefix |-> P_info]
    ELSE IF level = T_debug THEN [colorFn |-> "gray", prefix |-> P_debug]
    ELSE [colorFn |-> "white", prefix |-> P_log]

\* One console.log call: the colour function applied and the text printed.
\* chan, ev (the position of the event in ccSeen), id and type are history.
Printed(chan, ev, id, type, colorFn, text, kind) ==
    [chan |-> chan, ev |-> ev, id |-> id, type |-> type,
     color |-> colorFn, text |-> text, kind |-> kind]

\* The history entry of one delivered event; content says whether the event
\* carries anything to print (arguments, or text).
Seen(chan, id, type, content, timestamp, executionContextId) ==
    [chan |-> chan, id |-> id, type |-> type, content |-> content,
     timestamp |-> timestamp, executionContextId |-> executionContextId]

\* The inputs of the model
EventTypes      == {T_log, T_error, T_warn, T_warning, T_info, T_debug}
Timestamps      == {NumVal(Num(10)), NumVal(Num(20))}
ContextIds      == {NumVal(Num(10))}
\* Console.messageAdded may carry no timestamp and no executionContextId
ConsoleStamps   == {[timestamp |-> NumVal(Num(10)), ctx |-> NumVal(Num(10))],
                    [timestamp |-> NoVal, ctx |-> NoVal]}
RuntimeArgLists ==
    {[present |-> TRUE, list |-> <<>>],
     [present |-> TRUE, list |-> <<StringArg(<<"a">>)>>],
     [present |-> TRUE, list |-> <<StringArg(<<"n","=","%","d">>), NumberArg(50)>>]}
ConsoleTexts    == {S_empty, <<"b">>}
NoLocation      == [url |-> S_empty, line |-> Num(0), column |-> NoVal]
ConsoleLocations ==
    {NoLocation, [url |-> <<"/","m",".","j","s">>, line |-> Num(70), column |-> NoVal]}

CCInit ==
    /\ processedMessages = {}
    /\ ccOut = <<>>
    /\ ccSeen = <<>>

\* client.Runtime.consoleAPICalled((params) => { ... })
HandleConsoleAPICalled(type, args, executionContextId, timestamp) ==
    LET messageId == MessageId(timestamp, type, executionContextId)
        message   == formatArgs(args)
        style     == RuntimeStyle(type)
        content   == args.present /\ Len(args.list) > 0
    IN  /\ ccSeen' = Append(ccSeen, Seen("Runtime", messageId, type, content,
                                       timestamp, executionContextId))
        /\ IF ~content
           THEN UNCHANGED <<processedMessages, ccOut>>
           ELSE /\ processedMessages' = processedMessages \cup {messageId}
                /\ ccOut' = Append(ccOut,
                       Printed("Runtime", Len(ccSeen) + 1, messageId, type,
                               style.colorFn, message, "message"))

\* client.Console.messageAdded((params) => { ... })
HandleMessageAdded(level, text, location, timestamp, executionContextId) ==
    LET messageId == MessageId(timestamp, level, executionContextId)
        style     == ConsoleStyle(level)
        ev        == Len(ccSeen) + 1
        line1     == Printed("Console", ev, messageId, level, style.colorFn,
                             text, "message")
        line2     == Printed("Console", ev, messageId, level, "gray",
                             S_at \o location.url \o S_colon
                             \o NumberToString(location.line) \o S_colon
                             \o (IF TruthyVal(location.column)
                                 THEN StringOf(location.column) ELSE S_zero),
                             "location")
    IN  /\ ccSeen' = Append(ccSeen, Seen("Console", messageId, level, TruthyStr(text),
                                       timestamp, executionContextId))
        /\ UNCHANGED processedMessages
        /\ IF messageId \in processedMessages THEN UNCHANGED ccOut
           ELSE IF ~TruthyStr(text) THEN UNCHANGED ccOut
           ELSE IF TruthyStr(location.url) /\ location.line.n10 # 0
           THEN ccOut' = ccOut \o <<line1, line2>>
           ELSE ccOut' = Append(ccOut, line1)

ConsoleAPICalled ==
    /\ Len(ccSeen) < MaxEvents
    /\ \E type \in EventTypes, args \in RuntimeArgLists,
          ctx \in ContextIds, ts \in Timestamps :
            HandleConsoleAPICalled(type, args, ctx, ts)
    /\ UNCHANGED <<capVars, fnVars>>

MessageAdded ==
    /\ Len(ccSeen) < MaxEvents
    /\ \E level \in EventTypes, text \in ConsoleTexts,
          location \in ConsoleLocations, stamp \in ConsoleStamps :
            HandleMessageAdded(level, text, location, stamp.timestamp, stamp.ctx)
    /\ UNCHANGED <<capVars, fnVars>>

(***************************************************************************)
(* utils: formatConsoleMessage                                             *)
(*                                                                         *)
(* messageData is [id, source, type, text, timestamp, location, hasArgs,   *)
(* args, stack]: id and source are history; location is [present, url,     *)
(* lineNumber, columnNumber]; hasArgs tells a message built with an args   *)
(* array from one built without; an absent stack is the empty string.      *)
(* The instant timestamp is the number of events observed before it.       *)
(***************************************************************************)
MessageData(id, source, type, text, timestamp, location, hasArgs, args, stack) ==
    [id |-> id, source |-> source, type |-> type, text |-> text,
     timestamp |-> timestamp, location |-> location, hasArgs |-> hasArgs,
     args |-> args, stack |-> stack]

AbsentLocation ==
    [present |-> FALSE, url |-> S_empty, lineNumber |-> NoVal, columnNumber |-> NoVal]

Location(url, lineNumber, columnNumber) ==
    [present |-> TRUE, url |-> url,
     lineNumber |-> lineNumber, columnNumber |-> columnNumber]

\* Date.prototype.toISOString, abbreviated to an instant number between T and Z
toISOString(t) == <<"T">> \o DigitsOf(t) \o <<"Z">>

RECURSIVE LastSlash(_, _)
\* the greatest index at or below i where s holds '/', or 0
LastSlash(s, i) ==
    IF i = 0 THEN 0 ELSE IF s[i] = "/" THEN i ELSE LastSlash(s, i - 1)

\* url.split('/').pop(), without the fallback to url
fileNameOf_NoFallback(url) ==
    SubSeq(url, LastSlash(url, Len(url)) + 1, Len(url))

\* url.split('/').pop() || url
fileNameOf(url) ==
    LET k    == LastSlash(url, Len(url))
        last == SubSeq(url, k + 1, Len(url))
    IN  IF TruthyStr(last) THEN last ELSE url

WhiteSpace == {" ", "\n", "\t"}

RECURSIVE TrimLeft(_)
TrimLeft(s) ==
    IF Len(s) > 0 /\ Head(s) \in WhiteSpace THEN TrimLeft(Tail(s)) ELSE s

RECURSIVE TrimRight(_)
TrimRight(s) ==
    IF Len(s) > 0 /\ s[Len(s)] \in WhiteSpace
    THEN TrimRight(SubSeq(s, 1, Len(s) - 1)) ELSE s

\* String.prototype.trim
trim(s) == TrimRight(TrimLeft(s))

\* the map callback of argsText: objects (and null) through
\* JSON.stringify(arg, null, 2), every other value through String(arg)
ArgText(arg) ==
    IF arg.k \in {"obj", "null"} THEN JsonPretty(arg) ELSE StringOf(arg)

\* messageData.args.map(...).join(' ')
argsTextOf(args) ==
    JoinFrom([k \in 1..Len(args) |-> ArgText(args[k])], 1, S_space)

\* formatConsoleMessage(messageData, options)
formatConsoleMessage(messageData, opts) ==
    LET stamp    == IF opts.timestamp
                    THEN <<"[">> \o toISOString(messageData.timestamp) \o <<"]", " ">>
                    ELSE S_empty
        label    == <<"[">> \o typeLabel(messageData.type) \o <<"]", " ">>
        loc      == messageData.location
        where    == IF loc.present /\ TruthyStr(loc.url)
                    THEN <<"(">> \o fileNameOf(loc.url) \o S_colon
                         \o StringOf(loc.lineNumber) \o S_colon
                         \o StringOf(loc.columnNumber) \o <<")", " ">>
                    ELSE S_empty
        stack    == IF opts.includeStackTrace /\ TruthyStr(messageData.stack)
                    THEN S_newline \o messageData.stack
                    ELSE S_empty
        argsText == argsTextOf(messageData.args)
        extra    == IF messageData.hasArgs /\ Len(messageData.args) > 0
                       /\ argsText # messageData.text /\ TruthyStr(trim(argsText))
                    THEN <<"\n", " ", " ", "A", "r", "g", "s", ":", " ">> \o argsText
                    ELSE S_empty
    IN  stamp \o label \o where \o messageData.text \o stack \o extra

\* JSON.stringify(messageData) throws a TypeError when an element of args is a
\* BigInt
stringifyThrows(messageData) ==
    \E k \in 1..Len(messageData.args) : messageData.args[k].k = "bigint"

\* JSON.stringify(messageData): the members in construction order, absent
\* ones left out; an undefined array element is written null
JsonOfMessage(messageData) ==
    LET loc  == messageData.location
        locJ == <<"{">> \o JsonFields(
                    <<[key |-> <<"u","r","l">>,
                       value |-> (IF TruthyStr(loc.url) THEN StrVal(loc.url) ELSE NoVal)],
                      [key |-> <<"l","i","n","e","N","u","m","b","e","r">>,
                       value |-> loc.lineNumber],
                      [key |-> <<"c","o","l","u","m","n","N","u","m","b","e","r">>,
                       value |-> loc.columnNumber]>>, 1, S_empty, S_colon) \o <<"}">>
        elems == [k \in 1..Len(messageData.args) |->
                    IF messageData.args[k].k = "none" THEN S_null
                    ELSE JsonOfValue(messageData.args[k])]
    IN  <<"{">> \o Quoted(<<"t","y","p","e">>) \o S_colon \o Quoted(messageData.type)
        \o <<",">> \o Quoted(<<"t","e","x","t">>) \o S_colon \o Quoted(messageData.text)
        \o <<",">> \o Quoted(<<"t","i","m","e","s","t","a","m","p">>) \o S_colon
        \o Quoted(toISOString(messageData.timestamp))
        \o (IF messageData.source # "console" THEN S_empty
            ELSE (IF ~loc.present THEN S_empty
                  ELSE <<",">> \o Quoted(<<"l","o","c","a","t","i","o","n">>)
                       \o S_colon \o locJ)
                 \o <<",">> \o Quoted(<<"a","r","g","s">>) \o S_colon
                 \o <<"[">> \o JoinFrom(elems, 1, <<",">>) \o <<"]">>)
        \o (IF ~TruthyStr(messageData.stack) THEN S_empty
            ELSE <<",">> \o Quoted(<<"s","t","a","c","k">>) \o S_colon
                 \o Quoted(messageData.stack))
        \o <<"}">>

\* The index of the 'm' that ends a match of /\x1b\[[0-9;]*m/ starting at
\* index i of s, or 0 when none starts there; the escape character U+001B is
\* written "ESC"
AnsiMatchEnd(s, i) ==
    IF s[i] = "ESC" /\ i < Len(s) /\ s[i + 1] = "["
    THEN LET stop == CHOOSE j \in (i + 2)..(Len(s) + 1) :
                        /\ j = Len(s) + 1 \/ ~(IsDigit(s[j]) \/ s[j] = ";")
                        /\ \A k \in (i + 2)..(j - 1) : IsDigit(s[k]) \/ s[k] = ";"
         IN  IF stop <= Len(s) /\ s[stop] = "m" THEN stop ELSE 0
    ELSE 0

\* output.replace(/\x1b\[[0-9;]*m/g, ''): a match holds the escape character
\* only at its start, so the matches are disjoint and every one is removed
StripAnsi(s) ==
    IF ~Includes(s, "ESC") THEN s
    ELSE LET kept == {k \in 1..Len(s) :
                        ~\E i \in 1..k : AnsiMatchEnd(s, i) >= k}
             nth(n) == CHOOSE k \in kept : Cardinality({x \in kept : x <= k}) = n
         IN  [n \in 1..Cardinality(kept) |-> s[nth(n)]]

(***************************************************************************)
(* ChromeConsoleCapture: options, sinks and processMessage                 *)
(***************************************************************************)
\* Number of page events (console, pageerror, requestfailed) in one session
MaxObserved == 2
\* Number of handlers registered with onMessage
MaxHandlers == 2
\* Number of stop() calls
MaxStops == 2

\* options.filter as bin/chrome-console.js builds it from --filter-type:
\* allowedTypes.includes(messageData.type.toLowerCase()); a null filter is
\* [set |-> FALSE]
NoFilter == [set |-> FALSE, allowedTypes |-> {}]
TypeFilter(allowedTypes) == [set |-> TRUE, allowedTypes |-> allowedTypes]

filterAccepts(filter, messageData) ==
    toLowerCase(messageData.type) \in filter.allowedTypes

Options(format, outputFile, filter) ==
    [headless |-> FALSE, outputFile |-> outputFile, colorize |-> TRUE,
     timestamp |-> TRUE, includeStackTrace |-> FALSE, filter |-> filter,
     format |-> format]

\* The configurations of the model
OptionChoices ==
    {Options("default", "out.log", NoFilter),
     Options("default", "out.log", TypeFilter({T_log})),
     Options("default", "null", NoFilter),
     Options("json", "null", NoFilter),
     Options("raw", "null", TypeFilter({T_log}))}

\* A handler given to onMessage: throws says whether calling it throws;
\* isFunction is typeof handler === 'function'
Handlers ==
    {[id |-> "h1", throws |-> FALSE, isFunction |-> TRUE],
     [id |-> "h2", throws |-> TRUE,  isFunction |-> TRUE],
     [id |-> "h3", throws |-> FALSE, isFunction |-> FALSE]}

NewStream == [ended |-> FALSE, log |-> <<>>, refused |-> <<>>]

\* A write on a stream that has ended emits 'error' (ERR_STREAM_WRITE_AFTER_END)
\* while the stream is still closing, and the stream has no 'error' listener:
\* the process ends. Once the stream is destroyed the chunk is only dropped.
LateWriteOutcomes == {"crashed", "running"}

Chunk(kind, id, text) == [kind |-> kind, id |-> id, text |-> text]

\* stream.write(chunk): an ended stream refuses the chunk
StreamWrite(st, chunk) ==
    IF st.ended THEN [st EXCEPT !.refused = Append(@, chunk)]
    ELSE [st EXCEPT !.log = Append(@, chunk)]

StartMarker ==
    <<"\n">> \o <<"=","=","="," ","S","t","a","r","t","e","d"," ","=","=","=">>
    \o <<"\n", "\n">>

EndMarker ==
    <<"\n">> \o <<"=","=","="," ","E","n","d","e","d"," ","=","=","=">> \o <<"\n">>

\* the switch of processMessage: the text to write
outputOf(messageData, opts) ==
    IF opts.format = "json" THEN JsonOfMessage(messageData) \o S_newline
    ELSE IF opts.format = "raw" THEN messageData.text \o S_newline
    ELSE formatConsoleMessage(messageData, opts) \o S_newline

\* whether processMessage colours the terminal copy
Colorized(opts) == opts.colorize /\ opts.format = "default"

\* processMessage throws before anything is written to the file when
\* chalk[color] is no function
terminalThrows(messageData, opts) ==
    Colorized(opts) /\ ~ChalkCallable(getConsoleColor(messageData.type))

\* processMessage throws before anything is written at all when
\* JSON.stringify does
outputThrows(messageData, opts) ==
    opts.format = "json" /\ stringifyThrows(messageData)

\* the entry process.stdout.write receives
TerminalEntry(messageData, opts) ==
    [id |-> messageData.id,
     color |-> IF Colorized(opts) THEN getConsoleColor(messageData.type).v ELSE "none",
     text |-> outputOf(messageData, opts)]

RECURSIVE CalledHandlers(_)
\* messageHandlers.forEach(handler => handler(messageData)): the handlers
\* called, which end with the first one that throws
CalledHandlers(hs) ==
    IF Len(hs) = 0 THEN <<>>
    ELSE IF Head(hs).throws THEN <<Head(hs)>>
    ELSE <<Head(hs)>> \o CalledHandlers(Tail(hs))

SomeHandlerThrows(hs) == \E i \in 1..Len(hs) : hs[i].throws

\* The history entry of one processMessage call: the handlers registered and
\* the sinks configured at the call, and what became of the two writes.
Call(messageData, terminal, file) ==
    [id |-> messageData.id, source |-> messageData.source,
     type |-> messageData.type,
     text |-> messageData.text, args |-> messageData.args,
     content |-> TruthyStr(messageData.text) \/ Len(messageData.args) > 0,
     serializable |-> ~stringifyThrows(messageData),
     handlers |-> messageHandlers,
     fileStream |-> fileStream, terminal |-> terminal, file |-> file]

\* this.processMessage(messageData) followed by
\* this.messageHandlers.forEach(handler => handler(messageData)).
\* caught: the caller wraps the two statements in try/catch (the console
\* listener does, the pageerror and requestfailed listeners do not).
\* uncaught: what an exception that leaves the listener does to the process.
\* late: what a write on the ended stream does to the process.
ProcessAndNotify(messageData, caught, uncaught, late) ==
    LET threw   == \/ outputThrows(messageData, options)
                   \/ terminalThrows(messageData, options)
        toFile  == ~threw /\ fileStream # "null"
        refused == toFile /\ stream.ended
        chunk   == Chunk("message", messageData.id,
                         StripAnsi(outputOf(messageData, options)))
        called  == IF threw THEN <<>> ELSE CalledHandlers(messageHandlers)
        escaped == ~caught /\ (threw \/ SomeHandlerThrows(called))
    IN  /\ stdout' = IF threw THEN stdout
                     ELSE Append(stdout, TerminalEntry(messageData, options))
        /\ stream' = IF toFile THEN StreamWrite(stream, chunk) ELSE stream
        /\ delivered' = delivered \o
              [k \in 1..Len(called) |->
                  [handler |-> called[k].id, id |-> messageData.id]]
        /\ calls' = Append(calls,
              Call(messageData,
                   IF threw THEN "threw" ELSE "written",
                   IF threw THEN "skipped"
                   ELSE IF fileStream = "null" THEN "none"
                   ELSE IF refused THEN "refused" ELSE "written"))
        /\ proc' = IF refused /\ late = "crashed" THEN "crashed"
                   ELSE IF escaped THEN uncaught
                   ELSE proc

(***************************************************************************)
(* ChromeConsoleCapture: construction, start(), onMessage(), stop()        *)
(***************************************************************************)
CapInit ==
    /\ options \in OptionChoices
    /\ startPc = "idle"
    /\ browser = "null"
    /\ page = "null"
    /\ listening = FALSE
    /\ browserClosed = FALSE
    /\ fileStream = "null"
    /\ stream = NewStream
    /\ messageHandlers = <<>>
    /\ stdout = <<>>
    /\ delivered = <<>>
    /\ pending = <<>>
    /\ stops = <<>>
    /\ proc = "running"
    /\ nextId = 0
    /\ calls = <<>>

\* start(url) up to its first await: puppeteer.launch(...)
StartCall ==
    /\ proc = "running"
    /\ startPc = "idle"
    /\ startPc' = "launch"
    /\ UNCHANGED <<options, browser, page, listening, browserClosed, fileStream,
                   stream, messageHandlers, stdout, delivered, pending, stops,
                   proc, nextId, calls>>
    /\ UNCHANGED <<ccVars, fnVars>>

\* puppeteer.launch settles: this.browser is set and newPage() is awaited, or
\* the catch block rethrows
LaunchDone ==
    /\ proc = "running"
    /\ startPc = "launch"
    /\ \E ok \in BOOLEAN :
         IF ok THEN browser' = "open" /\ startPc' = "newPage"
         ELSE browser' = browser /\ startPc' = "failed"
    /\ UNCHANGED <<options, page, listening, browserClosed, fileStream, stream,
                   messageHandlers, stdout, delivered, pending, stops, proc,
                   nextId, calls>>
    /\ UNCHANGED <<ccVars, fnVars>>

\* browser.newPage() settles: this.page is set and setViewport() is awaited.
\* A closed browser opens no page.
NewPageDone ==
    /\ proc = "running"
    /\ startPc = "newPage"
    /\ \E ok \in BOOLEAN :
         /\ ok => ~browserClosed
         /\ IF ok THEN page' = "open" /\ startPc' = "viewport"
            ELSE page' = page /\ startPc' = "failed"
    /\ UNCHANGED <<options, browser, listening, browserClosed, fileStream, stream,
                   messageHandlers, stdout, delivered, pending, stops, proc,
                   nextId, calls>>
    /\ UNCHANGED <<ccVars, fnVars>>

\* setupFileOutput(): the stream is created and the start marker written
StreamAfterSetup == StreamWrite(NewStream, Chunk("start", 0, StartMarker))

\* page.setViewport() settles: setupConsoleHandling() and, with an output
\* file, setupFileOutput() run, and page.goto() is awaited. this.page.on(...)
\* throws when a stop() has set this.page to null in the meantime.
ViewportDone ==
    /\ proc = "running"
    /\ startPc = "viewport"
    /\ \E ok \in BOOLEAN :
         /\ ok => ~browserClosed
         /\ IF ok /\ page # "null"
            THEN /\ listening' = TRUE
                 /\ IF options.outputFile # "null"
                    THEN fileStream' = "stream" /\ stream' = StreamAfterSetup
                    ELSE UNCHANGED <<fileStream, stream>>
                 /\ startPc' = "goto"
            ELSE /\ startPc' = "failed"
                 /\ UNCHANGED <<listening, fileStream, stream>>
    /\ UNCHANGED <<options, browser, page, browserClosed, messageHandlers, stdout,
                   delivered, pending, stops, proc, nextId, calls>>
    /\ UNCHANGED <<ccVars, fnVars>>

\* page.goto() settles
GotoDone ==
    /\ proc = "running"
    /\ startPc = "goto"
    /\ \E ok \in BOOLEAN :
         /\ ok => ~browserClosed
         /\ startPc' = IF ok THEN "started" ELSE "failed"
    /\ UNCHANGED <<options, browser, page, listening, browserClosed, fileStream,
                   stream, messageHandlers, stdout, delivered, pending, stops,
                   proc, nextId, calls>>
    /\ UNCHANGED <<ccVars, fnVars>>

\* onMessage(handler). The sessions of the model register their handlers
\* before the listeners are attached.
OnMessage ==
    /\ proc = "running"
    /\ ~listening
    /\ Len(messageHandlers) < MaxHandlers
    /\ \E handler \in Handlers :
         /\ \A k \in 1..Len(messageHandlers) : messageHandlers[k].id # handler.id
         /\ messageHandlers' = IF handler.isFunction
                               THEN Append(messageHandlers, handler)
                               ELSE messageHandlers
    /\ UNCHANGED <<options, startPc, browser, page, listening, browserClosed,
                   fileStream, stream, stdout, delivered, pending, stops, proc,
                   nextId, calls>>
    /\ UNCHANGED <<ccVars, fnVars>>

\* the assignments that end stop()
StopReset ==
    /\ browser' = "null"
    /\ page' = "null"
    /\ fileStream' = "null"
    /\ messageHandlers' = <<>>

\* stop() up to its await: with a file stream, the end marker is written and
\* the stream ended; with a browser, browser.close() is awaited; without one
\* stop() runs to its end.
StopCall ==
    /\ proc = "running"
    /\ Len(stops) < MaxStops
    /\ stream' = IF fileStream # "null"
                 THEN [StreamWrite(stream, Chunk("end", 0, EndMarker))
                          EXCEPT !.ended = TRUE]
                 ELSE stream
    /\ \E late \in LateWriteOutcomes :
         IF fileStream # "null" /\ stream.ended /\ late = "crashed"
         THEN /\ proc' = "crashed"
              /\ stops' = Append(stops, "closing")
              /\ UNCHANGED <<browser, page, fileStream, messageHandlers>>
         ELSE IF browser # "null"
         THEN /\ stops' = Append(stops, "closing")
              /\ UNCHANGED <<browser, page, fileStream, messageHandlers, proc>>
         ELSE /\ stops' = Append(stops, "done")
              /\ StopReset
              /\ UNCHANGED proc
    /\ UNCHANGED <<options, startPc, listening, browserClosed, stdout, delivered,
                   pending, nextId, calls>>
    /\ UNCHANGED <<ccVars, fnVars>>

\* browser.close() resolves for one stop() call: the browser is closed and
\* stop() runs to its end
StopFinish ==
    /\ proc = "running"
    /\ \E i \in 1..Len(stops) :
         /\ stops[i] = "closing"
         /\ stops' = [stops EXCEPT ![i] = "done"]
         /\ browserClosed' = TRUE
         /\ StopReset
    /\ UNCHANGED <<options, startPc, listening, stream, stdout, delivered, pending,
                   proc, nextId, calls>>
    /\ UNCHANGED <<ccVars, fnVars>>

\* The write stream emits 'error' (the file cannot be opened, the disk is
\* full): setupFileOutput() registers no 'error' listener, so the event is
\* thrown and the process ends.
StreamError ==
    /\ proc = "running"
    /\ fileStream # "null"
    /\ ~stream.ended
    /\ proc' = "crashed"
    /\ calls' = Append(calls,
          [id |-> 0, source |-> "stream", type |-> S_empty,
           text |-> S_empty, args |-> <<>>,
           content |-> FALSE, serializable |-> TRUE,
           handlers |-> messageHandlers, fileStream |-> fileStream,
           terminal |-> "none", file |-> "error"])
    /\ UNCHANGED <<options, startPc, browser, page, listening, browserClosed,
                   fileStream, stream, messageHandlers, stdout, delivered, pending,
                   stops, nextId>>
    /\ UNCHANGED <<ccVars, fnVars>>

(***************************************************************************)
(* ChromeConsoleCapture: evaluate() and goto()                             *)
(***************************************************************************)
\* Number of evaluate() and goto() calls in one session of the model
MaxPageCalls == 2

\* if (!this.page) throw new Error('Page not initialized. Call start() first.')
PageGuardThrows == page = "null"

\* The history entry of one evaluate() or goto() call: where start() and
\* stop() stood at the call, and whether the call was rejected with the
\* guard's error or went on to this.page
PageCall(method) ==
    [id |-> 0, source |-> method, type |-> S_empty,
     startPc |-> startPc, page |-> page,
     stopped |-> \E k \in 1..Len(stops) : stops[k] = "done",
     outcome |-> IF PageGuardThrows THEN "notInitialized" ELSE "page"]

\* evaluate(fn, ...args)
Evaluate ==
    /\ proc = "running"
    /\ Len(calls) < MaxPageCalls
    /\ calls' = Append(calls, PageCall("evaluate"))
    /\ UNCHANGED <<options, startPc, browser, page, listening, browserClosed,
                   fileStream, stream, messageHandlers, stdout, delivered, pending,
                   stops, proc, nextId>>
    /\ UNCHANGED <<ccVars, fnVars>>

\* goto(url)
Goto ==
    /\ proc = "running"
    /\ Len(calls) < MaxPageCalls
    /\ calls' = Append(calls, PageCall("goto"))
    /\ UNCHANGED <<options, startPc, browser, page, listening, browserClosed,
                   fileStream, stream, messageHandlers, stdout, delivered, pending,
                   stops, proc, nextId>>
    /\ UNCHANGED <<ccVars, fnVars>>

(***************************************************************************)
(* ChromeConsoleCapture: the listeners of setupConsoleHandling             *)
(***************************************************************************)
\* A console argument handle: what jsonValue() resolves to, and the string
\* toString() gives when jsonValue() rejects
Handle(value, fallback) == [value |-> value, fallback |-> fallback]

H_a   == Handle(StrVal(<<"a">>), <<"J","S","H","a","n","d","l","e",":","a">>)
H_big == Handle(BigVal(1), <<"J","S","H","a","n","d","l","e",":","1">>)
H_obj == Handle(ObjVal(<<[key |-> <<"k">>, value |-> NumVal(Num(10))]>>),
                <<"J","S","H","a","n","d","l","e","@","o","b","j","e","c","t">>)

\* The inputs of the model: the console messages the page emits, each with
\* the type, text and location puppeteer reports and its argument handles
ConsoleMsg(type, text, location, handles) ==
    [type |-> type, text |-> text, location |-> location, handles |-> handles]

ConsoleMessages ==
    {ConsoleMsg(T_log, <<"a">>,
                Location(<<"h",":","/","m",".","j","s">>, NumVal(Num(70)), NumVal(Num(30))),
                <<>>),
     ConsoleMsg(T_log, S_empty, Location(S_empty, NoVal, NoVal), <<>>),
     ConsoleMsg(T_warning, <<"a"," ","o">>, Location(S_empty, NoVal, NoVal),
                <<H_a, H_obj>>),
     ConsoleMsg(T_log, <<"1","n">>, Location(S_empty, NoVal, NoVal), <<H_big>>)}
ErrorMessages   == {<<"b","o","o","m">>}
ErrorStacks     == {<<"a","t"," ","f">>}
FailedUrls      == {<<"h",":","/","x">>}
FailureTexts    == {<<"E","R","R">>}
UncaughtOutcomes == {"running", "crashed"}

\* the page emits events while the listeners are attached and the browser is
\* open
PageEmits ==
    /\ proc = "running"
    /\ listening
    /\ ~browserClosed
    /\ nextId < MaxObserved

\* The console listener from the point where every argument is in
\* messageData.args: the filter, processMessage and the handlers, inside the
\* listener's try/catch.
FinishConsole(messageData, late) ==
    IF options.filter.set /\ ~filterAccepts(options.filter, messageData)
    THEN UNCHANGED <<stdout, stream, delivered, calls, proc>>
    ELSE ProcessAndNotify(messageData, TRUE, "running", late)

\* page.on('console', async (msg) => { ... }) up to its first await, which is
\* the end of the listener for a message without arguments
ConsoleEvent ==
    /\ PageEmits
    /\ \E msg \in ConsoleMessages, late \in LateWriteOutcomes :
         LET messageData == MessageData(nextId + 1, "console", msg.type, msg.text,
                                        nextId, msg.location, TRUE, <<>>, S_empty)
         IN  IF Len(msg.handles) = 0
             THEN /\ FinishConsole(messageData, late)
                  /\ UNCHANGED pending
             ELSE /\ pending' = Append(pending,
                        [messageData |-> messageData, handles |-> msg.handles])
                  /\ UNCHANGED <<stdout, stream, delivered, calls, proc>>
    /\ nextId' = nextId + 1
    /\ UNCHANGED <<options, startPc, browser, page, listening, browserClosed,
                   fileStream, messageHandlers, stops>>
    /\ UNCHANGED <<ccVars, fnVars>>

RemoveAt(s, i) == SubSeq(s, 1, i - 1) \o SubSeq(s, i + 1, Len(s))

\* The listener without the inner try/catch: a jsonValue() that rejects ends
\* the listener in its outer catch, and the message is never processed
ResolveArg_AbortOnFailure ==
    /\ proc = "running"
    /\ \E i \in 1..Len(pending), ok \in BOOLEAN, late \in LateWriteOutcomes :
         LET p      == pending[i]
             h      == Head(p.handles)
             md     == [p.messageData EXCEPT !.args = Append(@, h.value)]
         IN  /\ ok => ~browserClosed
             /\ IF ~ok
                THEN /\ pending' = RemoveAt(pending, i)
                     /\ UNCHANGED <<stdout, stream, delivered, calls, proc>>
                ELSE IF Len(p.handles) > 1
                THEN /\ pending' = [pending EXCEPT
                                      ![i] = [messageData |-> md,
                                              handles |-> Tail(p.handles)]]
                     /\ UNCHANGED <<stdout, stream, delivered, calls, proc>>
                ELSE /\ pending' = RemoveAt(pending, i)
                     /\ FinishConsole(md, late)
    /\ UNCHANGED <<options, startPc, browser, page, listening, browserClosed,
                   fileStream, messageHandlers, stops, nextId>>
    /\ UNCHANGED <<ccVars, fnVars>>

\* await arg.jsonValue() settles in one suspended console listener: the value
\* is pushed, or, when it rejects, the string of arg.toString(); after the last
\* argument the listener runs to its end. A closed browser resolves no value.
ResolveArg ==
    /\ proc = "running"
    /\ \E i \in 1..Len(pending), ok \in BOOLEAN, late \in LateWriteOutcomes :
         LET p      == pending[i]
             h      == Head(p.handles)
             value  == IF ok THEN h.value ELSE StrVal(h.fallback)
             md     == [p.messageData EXCEPT !.args = Append(@, value)]
         IN  /\ ok => ~browserClosed
             /\ IF Len(p.handles) > 1
                THEN /\ pending' = [pending EXCEPT
                                      ![i] = [messageData |-> md,
                                              handles |-> Tail(p.handles)]]
                     /\ UNCHANGED <<stdout, stream, delivered, calls, proc>>
                ELSE /\ pending' = RemoveAt(pending, i)
                     /\ FinishConsole(md, late)
    /\ UNCHANGED <<options, startPc, browser, page, listening, browserClosed,
                   fileStream, messageHandlers, stops, nextId>>
    /\ UNCHANGED <<ccVars, fnVars>>

\* page.on('pageerror', (error) => { ... })
PageError ==
    /\ PageEmits
    /\ \E message \in ErrorMessages, stack \in ErrorStacks,
          uncaught \in UncaughtOutcomes, late \in LateWriteOutcomes :
         ProcessAndNotify(
             MessageData(nextId + 1, "pageerror", T_error, message, nextId,
                         AbsentLocation, FALSE, <<>>, stack),
             FALSE, uncaught, late)
    /\ nextId' = nextId + 1
    /\ UNCHANGED <<options, startPc, browser, page, listening, browserClosed,
                   fileStream, messageHandlers, pending, stops>>
    /\ UNCHANGED <<ccVars, fnVars>>

RequestFailedPrefix ==
    <<"R","e","q","u","e","s","t"," ","f","a","i","l","e","d",":"," ">>

\* page.on('requestfailed', (request) => { ... })
RequestFailed ==
    /\ PageEmits
    /\ \E url \in FailedUrls, errorText \in FailureTexts,
          uncaught \in UncaughtOutcomes, late \in LateWriteOutcomes :
         ProcessAndNotify(
             MessageData(nextId + 1, "requestfailed", T_error,
                         RequestFailedPrefix \o url \o <<" ", "-", " ">> \o errorText,
                         nextId, AbsentLocation, FALSE, <<>>, S_empty),
             FALSE, uncaught, late)
    /\ nextId' = nextId + 1
    /\ UNCHANGED <<options, startPc, browser, page, listening, browserClosed,
                   fileStream, messageHandlers, pending, stops>>
    /\ UNCHANGED <<ccVars, fnVars>>

(***************************************************************************)
(* utils: calls of getConsoleColor and of the type label                   *)
(***************************************************************************)
NotCalled == [fn |-> "none", color |-> JsUndefined, label |-> S_empty]

\* The types the functions are called with: the vocabulary as written, in
\* lower and in upper case, the types of the DevTools protocol that colorMap
\* does not name, the property names of Object.prototype and the empty string
TypeInputs ==
    Vocabulary
    \cup {toLowerCase(t) : t \in Vocabulary}
    \cup {toUpperCase(t) : t \in Vocabulary}
    \cup {T_verbose, T_startGroup, T_endGroup, T_constructor, T_toString,
          T_valueOf, T_hasOwnProperty, T___proto__, S_empty}

FnInit ==
    /\ fnIn \in TypeInputs
    /\ fnOut = NotCalled

\* getConsoleColor(messageData.type)
GetConsoleColor ==
    /\ fnOut.fn = "none"
    /\ fnOut' = [fn |-> "getConsoleColor", color |-> getConsoleColor(fnIn),
                 label |-> S_empty]
    /\ UNCHANGED fnIn
    /\ UNCHANGED <<ccVars, capVars>>

\* messageData.type.toUpperCase() of formatConsoleMessage
TypeLabel ==
    /\ fnOut.fn = "none"
    /\ fnOut' = [fn |-> "typeLabel", color |-> JsUndefined,
                 label |-> typeLabel(fnIn)]
    /\ UNCHANGED fnIn
    /\ UNCHANGED <<ccVars, capVars>>

(***************************************************************************)
(* utils: calls of formatConsoleMessage                                    *)
(***************************************************************************)
\* The messages and options formatConsoleMessage is called with
MessageTypes == {T_log, T_warn, T_groupCollapsed}
MessageTexts == {S_empty, <<"a">>, <<"a", " ">>}
MessageLocations ==
    {AbsentLocation,
     Location(S_empty, NoVal, NoVal),
     Location(<<"h",":","/","m",".","j","s">>, NumVal(Num(70)), NumVal(Num(30))),
     Location(<<"h",":","/","d","/">>, NumVal(Num(10)), NoVal),
     Location(<<"m",".","j","s">>, NumVal(Num(10)), NumVal(Num(20)))}
\* [hasArgs, args]: no args array, an empty one, and arrays of values
MessageArgs ==
    {[hasArgs |-> FALSE, args |-> <<>>],
     [hasArgs |-> TRUE, args |-> <<>>],
     [hasArgs |-> TRUE, args |-> <<StrVal(<<"a">>)>>],
     [hasArgs |-> TRUE, args |-> <<StrVal(<<"a", " ">>)>>],
     [hasArgs |-> TRUE, args |-> <<StrVal(<<" ">>)>>],
     [hasArgs |-> TRUE, args |-> <<StrVal(<<"a">>), NumVal(Num(15))>>],
     [hasArgs |-> TRUE,
      args |-> <<ObjVal(<<[key |-> <<"k">>, value |-> NumVal(Num(10))]>>)>>]}
MessageStacks == {S_empty, <<"a","t"," ","f">>}
FormatOptions ==
    {[Options("default", "null", NoFilter)
        EXCEPT !.timestamp = t, !.includeStackTrace = st] :
            t \in BOOLEAN, st \in BOOLEAN}

MessageInputs ==
    {[messageData |-> MessageData(0, "console", type, text, 0, location,
                                  a.hasArgs, a.args, stack),
      opts |-> opts] :
        type \in MessageTypes, text \in MessageTexts,
        location \in MessageLocations, a \in MessageArgs,
        stack \in MessageStacks, opts \in FormatOptions}

MessageInit ==
    /\ fnIn \in MessageInputs
    /\ fnOut = NotCalled

\* formatConsoleMessage(messageData, options)
FormatConsoleMessage ==
    /\ fnOut.fn = "none"
    /\ fnOut' = [fn |-> "formatConsoleMessage", color |-> JsUndefined,
                 label |-> S_empty,
                 text |-> formatConsoleMessage(fnIn.messageData, fnIn.opts)]
    /\ UNCHANGED fnIn
    /\ UNCHANGED <<ccVars, capVars>>

(***************************************************************************)
(* lib/chrome-console.js: calls of formatArgs                              *)
(***************************************************************************)
\* Number of arguments that follow the first one
MaxArgs == 2

F_count   == <<"C","o","u","n","t",":"," ","%","d">>
F_hundred == <<"1","0","0","%","%">>
F_two     == <<"%","s"," ","%","s">>
F_css     == <<"%","c","%","s">>
F_int     == <<"%","i">>
F_dec     == <<"%","d">>
F_float   == <<"%","f">>
F_object  == <<"%","o">>
F_escaped == <<"%","%","%","s">>
F_mixed   == <<"%","d","%","%","%","O">>
F_bare    == <<"5","%">>

\* the first arguments: format strings, and values that are none
FirstArgs ==
    {StringArg(fmt) : fmt \in {F_count, F_hundred, F_two, F_css, F_int, F_dec,
                               F_float, F_object, F_escaped, F_mixed, F_bare}}
    \cup {StringArg(<<"a">>), NumberArg(50), ObjectArg(<<"%","d">>)}

\* the arguments that follow
RestArgs ==
    {StringArg(<<"a","b","c">>), StringArg(<<"7">>), NumberArg(50), NumberArg(57),
     NaNArg, BooleanArg(TRUE), UndefinedArg, NullArg,
     ObjectArg(<<"O","b","j","e","c","t">>)}

ArgLists ==
    {[present |-> FALSE, list |-> <<>>], [present |-> TRUE, list |-> <<>>]}
    \cup {[present |-> TRUE, list |-> <<first>> \o rest] :
            first \in FirstArgs,
            rest \in UNION {[1..n -> RestArgs] : n \in 0..MaxArgs}}

FormatInit ==
    /\ fnIn \in ArgLists
    /\ fnOut = NotCalled

\* formatArgs(args)
FormatArgs ==
    /\ fnOut.fn = "none"
    /\ fnOut' = [fn |-> "formatArgs", color |-> JsUndefined, label |-> S_empty,
                 text |-> formatArgs(fnIn)]
    /\ UNCHANGED fnIn
    /\ UNCHANGED <<ccVars, capVars>>

(***************************************************************************)
(* The specifications                                                      *)
(***************************************************************************)
CCIdle ==
    /\ processedMessages = {}
    /\ ccOut = <<>>
    /\ ccSeen = <<>>

CapIdle ==
    /\ options = Options("default", "null", NoFilter)
    /\ startPc = "idle"
    /\ browser = "null"
    /\ page = "null"
    /\ listening = FALSE
    /\ browserClosed = FALSE
    /\ fileStream = "null"
    /\ stream = NewStream
    /\ messageHandlers = <<>>
    /\ stdout = <<>>
    /\ delivered = <<>>
    /\ pending = <<>>
    /\ stops = <<>>
    /\ proc = "running"
    /\ nextId = 0
    /\ calls = <<>>

FnIdle ==
    /\ fnIn = S_empty
    /\ fnOut = NotCalled

\* The chrome-console tool: the two handlers of setupConsoleListening
InitCC == CCInit /\ CapIdle /\ FnIdle
NextCC == ConsoleAPICalled \/ MessageAdded
SpecCC == InitCC /\ [][NextCC]_vars

\* One capture session of a ChromeConsoleCapture instance
InitCapture == CapInit /\ CCIdle /\ FnIdle
NextCapture ==
    \/ StartCall \/ LaunchDone \/ NewPageDone \/ ViewportDone \/ GotoDone
    \/ OnMessage \/ StopCall \/ StopFinish \/ StreamError
    \/ ConsoleEvent \/ ResolveArg \/ PageError \/ RequestFailed
SpecCapture == InitCapture /\ [][NextCapture]_vars

\* The colour and the label of one message type
InitColor == FnInit /\ CCIdle /\ CapIdle
NextColor == GetConsoleColor \/ TypeLabel
SpecColor == InitColor /\ [][NextColor]_vars

\* The ChromeConsoleCapture object under start(), stop(), evaluate() and
\* goto(), with a silent page
InitLifecycle == CapInit /\ CCIdle /\ FnIdle
NextLifecycle ==
    \/ StartCall \/ LaunchDone \/ NewPageDone \/ ViewportDone \/ GotoDone
    \/ StopCall \/ StopFinish
    \/ Evaluate \/ Goto
SpecLifecycle == InitLifecycle /\ [][NextLifecycle]_vars

\* The console listener of a capture session that is not stopped: start(),
\* the console events of the page and the resolution of their arguments
InitListener == CapInit /\ CCIdle /\ FnIdle
NextListener ==
    \/ StartCall \/ LaunchDone \/ NewPageDone \/ ViewportDone \/ GotoDone
    \/ ConsoleEvent \/ ResolveArg
SpecListener == InitListener /\ [][NextListener]_vars

\* One call of formatConsoleMessage
InitMessage == MessageInit /\ CCIdle /\ CapIdle
NextMessage == FormatConsoleMessage
SpecMessage == InitMessage /\ [][NextMessage]_vars

\* One call of formatArgs
InitFormat == FormatInit /\ CCIdle /\ CapIdle
NextFormat == FormatArgs
SpecFormat == InitFormat /\ [][NextFormat]_vars


(***************************************************************************)
(* Properties of the chrome-console tool (SpecCC)                          *)
(***************************************************************************)
\* s.startsWith(p)
StartsWith(s, p) == Len(s) >= Len(p) /\ SubSeq(s, 1, Len(p)) = p

\* the console.log calls that print a message (not its location line)
MessageLines == {k \in DOMAIN ccOut : ccOut[k].kind = "message"}

\* C1: among all events that share one derived identity at most one message
\* is emitted: no identity is printed twice, whatever the channels and the
\* arrival order of the events.
C1_NoIdentityEmittedTwice ==
    \A i \in MessageLines : \A j \in MessageLines :
        ccOut[i].id = ccOut[j].id => i = j

\* C2: for an identity reported on both channels the copy that arrives first
\* is the one emitted and the later copy is dropped: no printed message
\* belongs to an event that arrived after an emitted event of the same
\* identity on the other channel.
C2_FirstCopyWins ==
    \A k \in MessageLines :
        ~\E m \in MessageLines :
            /\ ccOut[m].ev < ccOut[k].ev
            /\ ccOut[m].id = ccOut[k].id
            /\ ccOut[m].chan # ccOut[k].chan

\* the two aliases of the warning type
WarnAliases == {T_warn, T_warning}

\* C9: warn and warning are one type for the colour: on both channels a
\* message of type or level warn and a message of type or level warning are
\* printed in the same colour.
C9_WarnAliasesSameColour ==
    \A i \in MessageLines : \A j \in MessageLines :
        ccOut[i].type \in WarnAliases /\ ccOut[j].type \in WarnAliases
            => ccOut[i].color = ccOut[j].color

\* the prefix the documentation gives for a type
DocumentedPrefix(type) ==
    IF type = T_error THEN P_error
    ELSE IF type = T_warn THEN P_warn
    ELSE IF type = T_info THEN P_info
    ELSE IF type = T_debug THEN P_debug
    ELSE P_log

\* C10: every console line the tool prints for a message of type log, error,
\* warn, info or debug starts with the prefix of its type,
\* [CHROME CONSOLE <TYPE>].
C10_LineCarriesPrefix ==
    \A k \in MessageLines :
        ccOut[k].type \in {T_log, T_error, T_warn, T_info, T_debug}
            => StartsWith(ccOut[k].text, DocumentedPrefix(ccOut[k].type))

(***************************************************************************)
(* Properties of a capture session (SpecCapture)                           *)
(***************************************************************************)
\* the processMessage calls of the history
MessageCalls == {k \in DOMAIN calls : calls[k].source # "stream"}

\* C3: with a filter configured, no message the filter rejects is written to
\* the terminal, written to the file or handed to a handler, whether it comes
\* from a console event, a page error or a request failure.
C3_FilterAppliesToEverySource ==
    options.filter.set =>
        \A k \in MessageCalls :
            toLowerCase(calls[k].type) \notin options.filter.allowedTypes
                => /\ calls[k].terminal # "written"
                   /\ calls[k].file # "written"
                   /\ \A d \in DOMAIN delivered : delivered[d].id # calls[k].id

\* C4: once stop() has written the end marker and ended the stream, no
\* message is written to that stream, also when a console event completes
\* while stop() awaits the browser close.
C4_NoMessageWriteAfterEnd ==
    \A k \in DOMAIN stream.refused : stream.refused[k].kind # "message"

\* C5: a failure of the file write does not stop later messages from being
\* processed: after a failure of the file sink the process is still running.
C5_FileFailureIsSurvived ==
    \A k \in DOMAIN calls :
        calls[k].file \in {"error", "refused"} => proc = "running"

\* C6: every message that is output is delivered exactly once to every
\* handler registered at that moment, also when an earlier handler fails.
C6_EveryHandlerGetsEveryMessage ==
    \A k \in MessageCalls :
        calls[k].terminal = "written" =>
            \A h \in DOMAIN calls[k].handlers :
                Cardinality({d \in DOMAIN delivered :
                                /\ delivered[d].id = calls[k].id
                                /\ delivered[d].handler = calls[k].handlers[h].id}) = 1

(***************************************************************************)
(* Properties of getConsoleColor (SpecColor)                               *)
(***************************************************************************)
\* C7: getConsoleColor maps every type of the vocabulary, compared without
\* regard to case, to the colour the table gives for it (groupCollapsed to
\* magenta, timeEnd to green, profileEnd to yellow, ...).
C7_ColourOfTheTable ==
    fnOut.fn = "getConsoleColor" =>
        \A i \in DOMAIN colorMap :
            toLowerCase(colorMap[i].key) = toLowerCase(fnIn)
                => fnOut.color = JsString(colorMap[i].value)

\* C8: getConsoleColor is total: it returns a non-empty colour name for every
\* type, and the default colour white for a type outside the vocabulary.
C8_TotalWithDefault ==
    fnOut.fn = "getConsoleColor" =>
        /\ fnOut.color.t = "string"
        /\ fnOut.color.v # ""
        /\ (\A t \in Vocabulary : toLowerCase(t) # toLowerCase(fnIn))
               => fnOut.color = JsString("white")


(***************************************************************************)
(* Properties of formatConsoleMessage (SpecMessage)                        *)
(***************************************************************************)
\* the positions of '/' in a url
SlashPositions(url) == {i \in 1..Len(url) : url[i] = "/"}

\* the segment of the url after its last '/'; the whole url without a '/'
LastSegment(url) ==
    IF SlashPositions(url) = {} THEN url
    ELSE SubSeq(url, (CHOOSE i \in SlashPositions(url) :
                         \A j \in SlashPositions(url) : j <= i) + 1, Len(url))

\* the first line the structured mode prescribes for a message
StructuredFirstLine(messageData, opts) ==
    (IF opts.timestamp
     THEN <<"[">> \o toISOString(messageData.timestamp) \o <<"]", " ">>
     ELSE <<>>)
    \o <<"[">> \o toUpperCase(messageData.type) \o <<"]", " ">>
    \o (IF messageData.location.present /\ messageData.location.url # <<>>
        THEN <<"(">>
             \o (IF LastSegment(messageData.location.url) = <<>>
                 THEN messageData.location.url
                 ELSE LastSegment(messageData.location.url))
             \o <<":">> \o StringOf(messageData.location.lineNumber)
             \o <<":">> \o StringOf(messageData.location.columnNumber)
             \o <<")", " ">>
        ELSE <<>>)
    \o messageData.text

\* C11: the first line formatConsoleMessage produces is the timestamp in
\* brackets only if timestamps are enabled, the upper-case type in brackets
\* always, the location (filename:line:col) only if a location url is
\* present, then the text; the filename is the segment after the last '/' of
\* the url, or the whole url when that segment is empty or there is no '/'.
\* Whatever follows the first line starts on a new line.
C11_FirstLineShape ==
    fnOut.fn = "formatConsoleMessage" =>
        LET line == StructuredFirstLine(fnIn.messageData, fnIn.opts)
        IN  /\ StartsWith(fnOut.text, line)
            /\ Len(fnOut.text) > Len(line) => fnOut.text[Len(line) + 1] = "\n"

\* C11 witness: a message with a timestamp and a location whose url ends in
\* '/' has been formatted
C11_Witness ==
    /\ fnOut.fn = "formatConsoleMessage"
    /\ fnIn.opts.timestamp
    /\ fnIn.messageData.location.url = <<"h",":","/","d","/">>
    /\ fnIn.messageData.text = <<"a">>

\* the text holds an 'Args:' block
HasArgsBlock(text) ==
    \E i \in 1..Len(text) :
        /\ i + 8 <= Len(text)
        /\ SubSeq(text, i, i + 8) = <<"\n", " ", " ", "A", "r", "g", "s", ":", " ">>

\* C12: when the rendered args text equals the text, also when the two are
\* equal only after trimming, no 'Args:' block is appended.
C12_NoArgsBlockWhenEqualAfterTrim ==
    fnOut.fn = "formatConsoleMessage" =>
        (trim(argsTextOf(fnIn.messageData.args)) = trim(fnIn.messageData.text)
            => ~HasArgsBlock(fnOut.text))


(***************************************************************************)
(* Properties of the capture session in json mode and on empty events      *)
(* (SpecCapture)                                                           *)
(***************************************************************************)
\* C13: in json mode processing a message never fails: for every console
\* message that reaches processMessage, also one whose args cannot be
\* serialized, one JSON line is written to the terminal.
C13_JsonLineAlwaysEmitted ==
    options.format = "json" =>
        \A i \in 1..Len(calls) :
            calls[i].source = "console" => calls[i].terminal = "written"

\* C14: a structured console event with empty text and no arguments produces
\* no output line.
C14_EmptyConsoleEventDropped ==
    \A i \in 1..Len(calls) :
        (calls[i].source = "console" /\ ~calls[i].content)
            => calls[i].terminal # "written"


(***************************************************************************)
(* Properties of formatArgs (SpecFormat)                                   *)
(***************************************************************************)
\* formatArgs was called on a format string: a first argument of type string
\* that holds a '%'
FormatCall ==
    /\ fnOut.fn = "formatArgs"
    /\ fnIn.present
    /\ Len(fnIn.list) > 0
    /\ fnIn.list[1].type = K_string
    /\ \E i \in 1..Len(fnIn.list[1].value.s) : fnIn.list[1].value.s[i] = "%"

FormatString == fnIn.list[1].value.s

\* the arguments after the format string: argument k is PositionalArgs[k]
PositionalArgs == Tail(fnIn.list)

\* the start of the run of '%' characters that position i of fmt belongs to
RunStart(fmt, i) ==
    CHOOSE a \in 1..i :
        /\ \A j \in a..i : fmt[j] = "%"
        /\ a = 1 \/ fmt[a - 1] # "%"

\* the positions of fmt where a specifier starts, reading left to right
SpecifierStarts(fmt) ==
    {i \in 1..(Len(fmt) - 1) :
        /\ fmt[i] = "%"
        /\ fmt[i + 1] \in {"s", "d", "i", "f", "o", "O", "c", "%"}
        /\ (i - RunStart(fmt, i)) % 2 = 0}

\* the positions of the specifiers other than '%%'
ConsumingStarts(fmt) == {i \in SpecifierStarts(fmt) : fmt[i + 1] # "%"}

\* the specifier at position i is the Rank-th one other than '%%'
Rank(fmt, i) == Cardinality({j \in ConsumingStarts(fmt) : j <= i})

RECURSIVE Concat(_)
Concat(pieces) ==
    IF Len(pieces) = 0 THEN <<>> ELSE Head(pieces) \o Concat(Tail(pieces))

\* what position i of fmt contributes to the output: a '%' for '%%', the
\* rendering of argument k for the k-th other specifier when argument k
\* exists (nothing for '%c'), the specifier itself otherwise
PieceAt(fmt, args, i) ==
    IF i \in SpecifierStarts(fmt)
    THEN IF fmt[i + 1] = "%" THEN <<"%">>
         ELSE IF Rank(fmt, i) > Len(args) THEN <<"%", fmt[i + 1]>>
         ELSE IF fmt[i + 1] = "c" THEN <<>>
         ELSE Substitute(fmt[i + 1], args[Rank(fmt, i)])
    ELSE IF i > 1 /\ (i - 1) \in SpecifierStarts(fmt) THEN <<>>
    ELSE <<fmt[i]>>

\* the format string with every specifier replaced
Interpolated(fmt, args) ==
    Concat([i \in 1..Len(fmt) |-> PieceAt(fmt, args, i)])

\* C15: the specifiers are processed left to right; the k-th specifier other
\* than '%%' is replaced by the rendering of argument k whenever argument k
\* exists, '%c' consumes its argument and renders nothing; 'Count: %d' with
\* the number 5 gives 'Count: 5'.
C15_SpecifiersConsumeInOrder ==
    FormatCall =>
        /\ StartsWith(fnOut.text, Interpolated(FormatString, PositionalArgs))
        /\ (FormatString = F_count /\ PositionalArgs = <<NumberArg(50)>>)
               => fnOut.text = <<"C","o","u","n","t",":"," ","5">>

\* C15 witness: '%c%s' was interpolated with two arguments, the second of
\* which is the text of '%s'
C15_Witness ==
    /\ FormatCall
    /\ FormatString = F_css
    /\ PositionalArgs = <<StringArg(<<"7">>), StringArg(<<"a","b","c">>)>>
    /\ fnOut.text = <<"a","b","c">>


RECURSIVE SpaceJoined(_)
\* the renderings of the arguments, in their order, separated by one space
SpaceJoined(args) ==
    IF Len(args) = 0 THEN <<>>
    ELSE IF Len(args) = 1 THEN RenderArg(args[1])
    ELSE RenderArg(args[1]) \o <<" ">> \o SpaceJoined(Tail(args))

\* C16, as the code has it: '%%' is rendered as one '%' and consumes no
\* argument; '100%%' gives '100%', followed, when arguments are supplied, by
\* a space and all of them space-joined, since none was consumed; '%%%s'
\* gives '%' and the rendering of the first argument.
C16_EscapeConsumesNothing ==
    FormatCall =>
        /\ FormatString = F_hundred =>
              fnOut.text = <<"1","0","0","%">>
                  \o (IF Len(PositionalArgs) = 0 THEN <<>>
                      ELSE <<" ">> \o SpaceJoined(PositionalArgs))
        /\ (FormatString = F_escaped /\ Len(PositionalArgs) = 1) =>
              fnOut.text = <<"%">> \o Substitute("s", PositionalArgs[1])

\* C16 witness: '100%%' was interpolated with one argument
C16_Witness ==
    /\ FormatCall
    /\ FormatString = F_hundred
    /\ PositionalArgs = <<StringArg(<<"a","b","c">>)>>
    /\ fnOut.text = <<"1","0","0","%"," ","a","b","c">>

\* C16 as stated: '100%%' produces exactly '100%' whatever arguments are
\* supplied with it.
C16_ExactlyHundredPercent ==
    (FormatCall /\ FormatString = F_hundred)
        => fnOut.text = <<"1","0","0","%">>

\* the position of the first specifier met after the arguments are exhausted
FirstExhausted(fmt, args) ==
    CHOOSE p \in ConsumingStarts(fmt) : Rank(fmt, p) = Len(args) + 1

\* C17: with n arguments after the format string, only the first n
\* specifiers other than '%%' are substituted; from the next one on the
\* format string is copied as it is, but for '%%'; '%s %s' with one argument
\* keeps the second '%s'.
C17_ExhaustedSpecifiersKept ==
    (FormatCall /\ Cardinality(ConsumingStarts(FormatString)) > Len(PositionalArgs))
     => LET p == FirstExhausted(FormatString, PositionalArgs)
        IN  /\ fnOut.text =
                  Interpolated(SubSeq(FormatString, 1, p - 1), PositionalArgs)
                  \o Interpolated(SubSeq(FormatString, p, Len(FormatString)), <<>>)
            /\ (FormatString = F_two /\ PositionalArgs = <<StringArg(<<"7">>)>>)
                  => fnOut.text = <<"7"," ","%","s">>

\* C17 witness: '%s %s' was interpolated with one argument
C17_Witness ==
    /\ FormatCall
    /\ FormatString = F_two
    /\ PositionalArgs = <<StringArg(<<"7">>)>>
    /\ fnOut.text = <<"7"," ","%","s">>

\* the number of arguments the specifiers consume
Consumed(fmt, args) ==
    IF Cardinality(ConsumingStarts(fmt)) < Len(args)
    THEN Cardinality(ConsumingStarts(fmt)) ELSE Len(args)

\* C18: the output is the interpolated format string followed, when
\* arguments remain beyond the last consumed one, by one space and the
\* renderings of exactly those arguments, in their order, space-joined.
C18_RemainingAppendedOnce ==
    FormatCall =>
        LET k == Consumed(FormatString, PositionalArgs)
        IN  fnOut.text =
                Interpolated(FormatString, PositionalArgs)
                \o (IF k < Len(PositionalArgs)
                    THEN <<" ">> \o SpaceJoined(SubSeq(PositionalArgs, k + 1,
                                                      Len(PositionalArgs)))
                    ELSE <<>>)

\* C18 witness: 'Count: %d' was interpolated with two arguments; the second
\* one follows the interpolated text
C18_Witness ==
    /\ FormatCall
    /\ FormatString = F_count
    /\ PositionalArgs = <<NumberArg(50), StringArg(<<"a","b","c">>)>>
    /\ fnOut.text = <<"C","o","u","n","t",":"," ","5"," ","a","b","c">>

\* the arguments that are not numeric: a string that does not parse, an
\* object, undefined, and a number without a numeric value
NonNumericArgs ==
    {StringArg(<<"a","b","c">>), ObjectArg(<<"O","b","j","e","c","t">>),
     UndefinedArg, NaNArg}

\* C19: '%d', '%i' and '%f' yield 0 for every argument that is not numeric.
C19_NonNumericYieldsZero ==
    (/\ FormatCall
     /\ FormatString \in {F_dec, F_int, F_float}
     /\ Len(PositionalArgs) = 1
     /\ PositionalArgs[1] \in NonNumericArgs)
        => fnOut.text = <<"0">>


(***************************************************************************)
(* Properties of evaluate() and goto() (SpecLifecycle)                     *)
(***************************************************************************)
\* the evaluate() and goto() calls of the history
PageCalls == {i \in 1..Len(calls) : calls[i].source \in {"evaluate", "goto"}}

\* C20: evaluate(fn) and goto(url) fail with 'Page not initialized. Call
\* start() first.' and never reach the page when they are called before
\* start(), after a start() that failed before the page was created, or after
\* a stop() has completed.
C20_GuardedWithoutSession ==
    \A i \in PageCalls :
        (\/ calls[i].startPc = "idle"
         \/ calls[i].startPc = "failed" /\ calls[i].page = "null"
         \/ calls[i].stopped)
            => calls[i].outcome = "notInitialized"


(***************************************************************************)
(* Properties of the identity set of the chrome-console tool (SpecCC)      *)
(***************************************************************************)
\* the identities of the messages emitted so far
EmittedIds == {ccOut[k].id : k \in MessageLines}

\* C21: the deduplication gate records every identity it accepts: in every
\* reachable state the set of recorded identities equals the set of
\* identities of the messages emitted so far, whichever channel each message
\* came from.
C21_RecordedEqualsEmitted == processedMessages = EmittedIds

\* the event at position e of the session printed a message
Emitted(e) == \E k \in MessageLines : ccOut[k].ev = e

\* a consoleAPICalled event with non-empty args, handled before event e, with
\* the timestamp and the executionContextId of e and a type equal to its level
EarlierRuntimeTwin(e) ==
    \E d \in 1..(e - 1) :
        /\ ccSeen[d].chan = "Runtime"
        /\ ccSeen[d].content
        /\ ccSeen[d].timestamp = ccSeen[e].timestamp
        /\ ccSeen[d].executionContextId = ccSeen[e].executionContextId
        /\ ccSeen[d].type = ccSeen[e].type

\* C24: suppression is one-directional: a consoleAPICalled event with at
\* least one argument is always emitted, whatever the identity set holds, and
\* a messageAdded event (one that carries text, so that it has something to
\* emit) is suppressed if and only if a consoleAPICalled event with non-empty
\* args, the same timestamp, the same executionContextId and a type equal to
\* its level was handled earlier in the session.
C24_SuppressionOneDirectional ==
    \A e \in 1..Len(ccSeen) :
        /\ (ccSeen[e].chan = "Runtime" /\ ccSeen[e].content) => Emitted(e)
        /\ (ccSeen[e].chan = "Console" /\ ccSeen[e].content)
              => (~Emitted(e) <=> EarlierRuntimeTwin(e))

\* C24 witness: a messageAdded event with text was suppressed after its
\* consoleAPICalled twin was emitted
C24_Witness ==
    /\ Len(ccSeen) = 2
    /\ ccSeen[1].chan = "Runtime" /\ ccSeen[1].content /\ Emitted(1)
    /\ ccSeen[2].chan = "Console" /\ ccSeen[2].content /\ ~Emitted(2)
    /\ ccSeen[2].id = ccSeen[1].id


(***************************************************************************)
(* Properties of the order of emission and of stop() (SpecCapture)         *)
(***************************************************************************)
\* C25: messages are emitted in the order in which their events were
\* observed: the message of the event observed first (ids count the events
\* as they are observed) is processed before the message of an event
\* observed later, console events with arguments still being resolved, page
\* errors and request failures included.
C25_EmittedInObservedOrder ==
    \A i \in MessageCalls : \A j \in MessageCalls :
        i < j => calls[i].id < calls[j].id

\* the chunks of the session-end marker, written and refused
EndMarkersWritten == {k \in DOMAIN stream.log : stream.log[k].kind = "end"}
EndMarkersRefused == {k \in DOMAIN stream.refused : stream.refused[k].kind = "end"}

\* C26: stop() is idempotent for the file sink: the session-end marker is
\* written at most once and no end marker is written to a stream that has
\* been ended, also when stop() is called a second time while the first call
\* still awaits the browser close.
C26_EndMarkerWrittenOnce ==
    /\ Cardinality(EndMarkersWritten) <= 1
    /\ EndMarkersRefused = {}


(***************************************************************************)
(* Properties of the format-string test of formatArgs (SpecFormat)         *)
(***************************************************************************)
\* C23: element 0 is a format string if and only if its type is string and
\* its value contains '%'. In every other case no specifier is interpreted
\* and the result is the renderings of all arguments, element 0 included,
\* joined by single spaces in order; an empty or missing argument list gives
\* the empty string. A string with '%' is interpolated: '%s %s' with '7' and
\* 'abc' gives '7 abc'.
C23_FormatStringTest ==
    fnOut.fn = "formatArgs" =>
        IF ~fnIn.present \/ Len(fnIn.list) = 0 THEN fnOut.text = <<>>
        ELSE IF FormatCall
        THEN (FormatString = F_two
              /\ PositionalArgs = <<StringArg(<<"7">>), StringArg(<<"a","b","c">>)>>)
                 => fnOut.text = <<"7"," ","a","b","c">>
        ELSE fnOut.text = SpaceJoined(fnIn.list)

\* C23 witness: formatArgs was called with a first argument that is no
\* string although its rendering holds a specifier; nothing was interpreted
C23_Witness ==
    /\ fnOut.fn = "formatArgs"
    /\ fnIn.list = <<ObjectArg(<<"%","d">>), NumberArg(50)>>
    /\ fnOut.text = <<"%","d"," ","5">>


(***************************************************************************)
(* Properties of the resolution of console arguments (SpecListener)        *)
(***************************************************************************)
\* the argument handles of the console message with the given type and text
HandlesOf(type, text) ==
    (CHOOSE msg \in ConsoleMessages : msg.type = type /\ msg.text = text).handles

\* the console messages that reached processMessage
ConsoleCalls == {k \in DOMAIN calls : calls[k].source = "console"}

\* C22: a console message is processed only after each of its arguments has
\* resolved or failed: at processMessage args holds exactly one entry per
\* argument, in the original order, which is the resolved value or, for an
\* argument whose resolution failed, the string fallback of that argument;
\* a message still waiting for an argument is not processed, and without a
\* filter every observed console event is waiting or has been processed, so
\* that a failed resolution never keeps a message from processMessage.
C22_ArgsResolvedOrReplaced ==
    /\ \A k \in ConsoleCalls :
          LET handles == HandlesOf(calls[k].type, calls[k].text)
          IN  /\ Len(calls[k].args) = Len(handles)
              /\ \A a \in 1..Len(handles) :
                    calls[k].args[a] \in {handles[a].value,
                                          StrVal(handles[a].fallback)}
              /\ \A p \in DOMAIN pending : pending[p].messageData.id # calls[k].id
    /\ ~options.filter.set =>
          \A id \in 1..nextId :
              \/ \E k \in ConsoleCalls : calls[k].id = id
              \/ \E p \in DOMAIN pending : pending[p].messageData.id = id

\* C22 witness: the message with two arguments was processed with the first
\* argument resolved and the second replaced by its fallback string
C22_Witness ==
    \E k \in ConsoleCalls :
        /\ calls[k].args = <<H_a.value, StrVal(H_obj.fallback)>>
        /\ calls[k].terminal = "written"

====
